---- MODULE Spec2Model ----
(***************************************************************************)
(* Model of the command templating and synthetic-value engine of the       *)
(* DocumentDB benchmark suite: BaseExecutor (template indexing and         *)
(* substitution), DataManager (value generation and output conversion),    *)
(* DocumentDBExecutor.execute (plan cache, batch loop, driver call,        *)
(* outcome event) and the user classes that own the executors.             *)
(*                                                                         *)
(* Python values are tagged records [t |-> type name, v |-> payload]:      *)
(*   str   v is the sequence of its characters                             *)
(*   int   v is the integer, bool v is a BOOLEAN, NoneType v is 0          *)
(*   dict  v is the sequence of its items [key, val] in insertion order    *)
(*   list  v is the sequence of its elements                               *)
(* The tag t is the first field named in the module, so that TLC compares  *)
(* the tags of two values before their payloads.                           *)
(***************************************************************************)
EXTENDS Integers, Sequences, FiniteSets, TLC

\* ------------------------------------------------------------------------
\* Python values
\* ------------------------------------------------------------------------
PyStr(s)  == [t |-> "str", v |-> s]
PyInt(n)  == [t |-> "int", v |-> n]
PyBool(b) == [t |-> "bool", v |-> b]
PyNone    == [t |-> "NoneType", v |-> 0]
PyDict(items) == [t |-> "dict", v |-> items]
PyList(items) == [t |-> "list", v |-> items]

Item(k, x) == [key |-> k, val |-> x]

\* isinstance(v, (dict, list))
IsContainer(x) == x.t \in {"dict", "list"}

\* v == param, for the value types of the model (bool is an int in Python).
PyNum(x) == IF x.t = "bool" THEN (IF x.v THEN 1 ELSE 0) ELSE x.v
PyEq(a, b) ==
    IF a.t \in {"int", "bool"} /\ b.t \in {"int", "bool"} THEN PyNum(a) = PyNum(b)
    ELSE IF a.t # b.t THEN FALSE
    ELSE a.v = b.v

\* ------------------------------------------------------------------------
\* Ordered dicts (Python dict): lookup, membership, insertion
\* ------------------------------------------------------------------------
DictKeys(d) == [i \in 1..Len(d) |-> d[i].key]
DictHas(d, k) == \E i \in 1..Len(d) : d[i].key = k
DictIdx(d, k) == CHOOSE i \in 1..Len(d) : d[i].key = k
DictGet(d, k) == d[DictIdx(d, k)].val
\* d[k] = x : overwrite in place, or append a new item at the end
DictSet(d, k, x) ==
    IF DictHas(d, k) THEN [d EXCEPT ![DictIdx(d, k)].val = x]
    ELSE Append(d, Item(k, x))

\* ------------------------------------------------------------------------
\* str(int): decimal digits, with a leading '-' for negatives
\* ------------------------------------------------------------------------
Digits == <<"0", "1", "2", "3", "4", "5", "6", "7", "8", "9">>

RECURSIVE NatToStr(_)
NatToStr(n) ==
    IF n < 10 THEN <<Digits[n + 1]>>
    ELSE NatToStr(n \div 10) \o <<Digits[(n % 10) + 1]>>

IntToStr(n) == IF n < 0 THEN <<"-">> \o NatToStr(-n) ELSE NatToStr(n)

\* ------------------------------------------------------------------------
\* BaseExecutor._map_all_param_paths
\*   result is the defaultdict(list) of the code: an ordered dict from a
\*   parameter name to the list of its paths; a path is a list of dict keys
\*   (str) and list indices (int, 0-based).
\* ------------------------------------------------------------------------
\* result[param].append(path)
AppendPath(result, param, path) ==
    IF DictHas(result, param)
    THEN [result EXCEPT ![DictIdx(result, param)].val = Append(@, path)]
    ELSE Append(result, Item(param, <<path>>))

\* a matcher that records the path of a placeholder under every parameter
RECURSIVE MatchParams_all(_, _, _, _, _)
MatchParams_all(x, path, param_names, j, result) ==
    IF j > Len(param_names) THEN result
    ELSE MatchParams_all(x, path, param_names, j + 1,
            IF \E k \in 1..Len(param_names) : PyEq(x, param_names[k])
            THEN AppendPath(result, param_names[j], path)
            ELSE result)

\* for param in param_names: if v == param: result[param].append(path)
RECURSIVE MatchParams(_, _, _, _, _)
MatchParams(x, path, param_names, j, result) ==
    IF j > Len(param_names) THEN result
    ELSE MatchParams(x, path, param_names, j + 1,
            IF PyEq(x, param_names[j])
            THEN AppendPath(result, param_names[j], path)
            ELSE result)

\* the key (or index) and the value of the i-th entry of a dict or list
EntryKey(o, i) == IF o.t = "dict" THEN o.v[i].key ELSE PyInt(i - 1)
EntryVal(o, i) == IF o.t = "dict" THEN o.v[i].val ELSE o.v[i]

\* a traversal that matches the entries of o and does not descend into them
RECURSIVE recurse_shallow(_, _, _, _, _)
recurse_shallow(o, current_path, param_names, i, result) ==
    IF ~IsContainer(o) \/ i > Len(o.v) THEN result
    ELSE recurse_shallow(o, current_path, param_names, i + 1,
            MatchParams(EntryVal(o, i), current_path \o <<EntryKey(o, i)>>,
                        param_names, 1, result))

\* recurse(o, current_path) of _map_all_param_paths
RECURSIVE recurse(_, _, _, _, _)
recurse(o, current_path, param_names, i, result) ==
    IF ~IsContainer(o) \/ i > Len(o.v) THEN result
    ELSE LET k  == EntryKey(o, i)
             x  == EntryVal(o, i)
             r1 == MatchParams(x, current_path \o <<k>>, param_names, 1, result)
             r2 == IF IsContainer(x)
                   THEN recurse(x, current_path \o <<k>>, param_names, 1, r1)
                   ELSE r1
         IN recurse(o, current_path, param_names, i + 1, r2)

map_all_param_paths(obj, param_names) == recurse(obj, <<>>, param_names, 1, <<>>)

\* ------------------------------------------------------------------------
\* BaseExecutor._replace_json_param_at_paths / _replace_all_params
\*   Python mutates obj in place; the operators return the object after the
\*   mutation, and raised = TRUE when the statement raises (KeyError,
\*   IndexError, TypeError) with the mutations made before it kept.
\* ------------------------------------------------------------------------
\* target[key] is readable
CanGet(target, key) ==
    \/ target.t = "dict" /\ DictHas(target.v, key)
    \/ target.t = "list" /\ key.t = "int" /\ key.v >= 0 /\ key.v < Len(target.v)
GetItem(target, key) ==
    IF target.t = "dict" THEN DictGet(target.v, key) ELSE target.v[key.v + 1]

\* target[key] = value is allowed (a dict takes any key, a list an index in range)
CanSet(target, key) ==
    \/ target.t = "dict"
    \/ target.t = "list" /\ key.t = "int" /\ key.v >= 0 /\ key.v < Len(target.v)
SetItem(target, key, value) ==
    IF target.t = "dict" THEN PyDict(DictSet(target.v, key, value))
    ELSE PyList([target.v EXCEPT ![key.v + 1] = value])

\* one path: walk path[:-1] from obj, then target[path[-1]] = value
RECURSIVE SetAtPath(_, _, _)
SetAtPath(obj, path, value) ==
    IF Len(path) = 0 THEN [raised |-> TRUE, obj |-> obj]
    ELSE IF Len(path) = 1 THEN
        IF CanSet(obj, path[1])
        THEN [raised |-> FALSE, obj |-> SetItem(obj, path[1], value)]
        ELSE [raised |-> TRUE, obj |-> obj]
    ELSE IF ~CanGet(obj, path[1]) THEN [raised |-> TRUE, obj |-> obj]
    ELSE LET sub == SetAtPath(GetItem(obj, path[1]), Tail(path), value)
         IN [raised |-> sub.raised,
             obj |-> IF sub.raised THEN obj ELSE SetItem(obj, path[1], sub.obj)]

RECURSIVE replace_paths_from(_, _, _, _)
replace_paths_from(obj, paths, value, i) ==
    IF i > Len(paths) THEN [raised |-> FALSE, obj |-> obj]
    ELSE LET one == SetAtPath(obj, paths[i], value)
         IN IF one.raised THEN one
            ELSE replace_paths_from(one.obj, paths, value, i + 1)

replace_json_param_at_paths(obj, paths, value) ==
    replace_paths_from(obj, paths, value, 1)

\* for param, paths in param_paths_dict.items(): ... param_values[param]
RECURSIVE replace_params_from(_, _, _, _)
replace_params_from(obj_copy, param_paths_dict, param_values, i) ==
    IF i > Len(param_paths_dict) THEN [raised |-> FALSE, obj |-> obj_copy]
    ELSE IF ~DictHas(param_values, param_paths_dict[i].key)
    THEN [raised |-> TRUE, obj |-> obj_copy]
    ELSE LET one == replace_json_param_at_paths(obj_copy, param_paths_dict[i].val,
                        DictGet(param_values, param_paths_dict[i].key))
         IN IF one.raised THEN one
            ELSE replace_params_from(one.obj, param_paths_dict, param_values, i + 1)

\* deepcopy_obj: bool = True, the default every call of the repository takes
deepcopy_off == FALSE
deepcopy_default == TRUE

\* ret is the returned tree, obj the argument object after the call: untouched
\* when the work was done on a deep copy, the mutated tree itself otherwise.
replace_all_params(obj, param_paths_dict, param_values, deepcopy_obj) ==
    LET r == replace_params_from(obj, param_paths_dict, param_values, 1)
    IN [raised |-> r.raised,
        ret    |-> r.obj,
        obj    |-> IF deepcopy_obj THEN obj ELSE r.obj]

\* ------------------------------------------------------------------------
\* String literals of the source
\* ------------------------------------------------------------------------
s_a  == <<"@", "a">>
s_b  == <<"@", "b">>
s_x  == <<"x">>
s_empty == <<>>
s_guid == <<"g", "u", "i", "d">>
s_objectid == <<"o", "b", "j", "e", "c", "t", "i", "d">>
s_datetime == <<"d", "a", "t", "e", "t", "i", "m", "e">>
s_unix_timestamp == <<"u", "n", "i", "x", "_", "t", "i", "m", "e", "s", "t", "a", "m", "p">>
s_random_int == <<"r", "a", "n", "d", "o", "m", "_", "i", "n", "t">>
s_random_float == <<"r", "a", "n", "d", "o", "m", "_", "f", "l", "o", "a", "t">>
s_random_list == <<"r", "a", "n", "d", "o", "m", "_", "l", "i", "s", "t">>
s_random_bool == <<"r", "a", "n", "d", "o", "m", "_", "b", "o", "o", "l">>
s_random_string == <<"r", "a", "n", "d", "o", "m", "_", "s", "t", "r", "i", "n", "g">>
s_constant == <<"c", "o", "n", "s", "t", "a", "n", "t">>
s_concat == <<"c", "o", "n", "c", "a", "t">>
s_string == <<"s", "t", "r", "i", "n", "g">>
s_str == <<"s", "t", "r">>
s_int == <<"i", "n", "t">>
s_integer == <<"i", "n", "t", "e", "g", "e", "r">>
s_float == <<"f", "l", "o", "a", "t">>
s_decimal == <<"d", "e", "c", "i", "m", "a", "l">>
s_bool == <<"b", "o", "o", "l">>
s_boolean == <<"b", "o", "o", "l", "e", "a", "n">>
s_hex == <<"h", "e", "x">>
s_upper == <<"u", "p", "p", "e", "r">>
s_lower == <<"l", "o", "w", "e", "r">>
s_bytes == <<"b", "y", "t", "e", "s">>
s_true == <<"t", "r", "u", "e">>
s_yes == <<"y", "e", "s">>
s_y == <<"y">>
s_True == <<"T", "r", "u", "e">>
s_False == <<"F", "a", "l", "s", "e">>
s_None == <<"N", "o", "n", "e">>
s_insert == <<"i", "n", "s", "e", "r", "t">>
s_aggregate == <<"a", "g", "g", "r", "e", "g", "a", "t", "e">>
s_find == <<"f", "i", "n", "d">>
s_delete == <<"d", "e", "l", "e", "t", "e">>
s_update == <<"u", "p", "d", "a", "t", "e">>
s_replace == <<"r", "e", "p", "l", "a", "c", "e">>
s_random_int_as_string == <<"r", "a", "n", "d", "o", "m", "_", "i", "n", "t", "_", "a", "s", "_", "s", "t", "r", "i", "n", "g">>
s_faker_dot == <<"f", "a", "k", "e", "r", ".">>
s_one == <<"1">>

\* ------------------------------------------------------------------------
\* Python str, int, float and bool built-ins used by DataManager
\*   float v is the number in tenths (1.5 is 15); UUID, ObjectId and datetime
\*   objects carry an opaque identity / clock reading; bytes carry characters.
\* ------------------------------------------------------------------------
PyFloat(tenths) == [t |-> "float", v |-> tenths]
PyUUID(n)       == [t |-> "UUID", v |-> n]
PyObjectId(n)   == [t |-> "ObjectId", v |-> n]
PyDatetime(c)   == [t |-> "datetime", v |-> c]
PyBytes(s)      == [t |-> "bytes", v |-> s]

UpperChars == <<"A", "B", "C", "D", "E", "F", "G", "H", "I", "J", "K", "L", "M",
                "N", "O", "P", "Q", "R", "S", "T", "U", "V", "W", "X", "Y", "Z">>
LowerChars == <<"a", "b", "c", "d", "e", "f", "g", "h", "i", "j", "k", "l", "m",
                "n", "o", "p", "q", "r", "s", "t", "u", "v", "w", "x", "y", "z">>
HexDigits  == <<"0", "1", "2", "3", "4", "5", "6", "7", "8", "9",
                "a", "b", "c", "d", "e", "f">>

Range(f) == {f[i] : i \in DOMAIN f}
IndexIn(f, c) == CHOOSE i \in DOMAIN f : f[i] = c

DigitSet == Range(Digits)
UpperSet == Range(UpperChars)
LowerSet == Range(LowerChars)
IsDigit(c) == c \in DigitSet
\* \w of the regular expressions
WordChars == DigitSet \cup UpperSet \cup LowerSet \cup {"_"}
IsWordChar(c) == c \in WordChars
\* the characters the int and float conversions keep
IntChars == DigitSet \cup {"-"}
FloatChars == DigitSet \cup {".", "-"}

\* str.lower() / str.upper()
LowerChar(c) == IF c \in UpperSet THEN LowerChars[IndexIn(UpperChars, c)] ELSE c
UpperChar(c) == IF c \in LowerSet THEN UpperChars[IndexIn(LowerChars, c)] ELSE c
Lower(s) == [i \in 1..Len(s) |-> LowerChar(s[i])]
Upper(s) == [i \in 1..Len(s) |-> UpperChar(s[i])]

\* ''.join(filter(keep, s))
RECURSIVE FilterChars(_, _)
FilterChars(s, keep) ==
    IF Len(s) = 0 THEN <<>>
    ELSE (IF s[1] \in keep THEN <<s[1]>> ELSE <<>>) \o FilterChars(Tail(s), keep)

\* s.startswith(prefix)
StartsWith(s, prefix) == Len(s) >= Len(prefix) /\ SubSeq(s, 1, Len(prefix)) = prefix

\* hex(n)
RECURSIVE NatToHex(_)
NatToHex(n) ==
    IF n < 16 THEN <<HexDigits[n + 1]>>
    ELSE NatToHex(n \div 16) \o <<HexDigits[(n % 16) + 1]>>
IntToHex(n) == IF n < 0 THEN <<"-", "0", "x">> \o NatToHex(-n) ELSE <<"0", "x">> \o NatToHex(n)

\* int(s) for s made of digits and '-': an optional sign and at least one digit
AllDigits(s) == Len(s) > 0 /\ \A i \in 1..Len(s) : IsDigit(s[i])
RECURSIVE ParseNat(_)
ParseNat(s) ==
    IF Len(s) = 0 THEN 0
    ELSE ParseNat(SubSeq(s, 1, Len(s) - 1)) * 10 + (IndexIn(Digits, s[Len(s)]) - 1)
IsIntLiteral(s) == AllDigits(s) \/ (Len(s) > 1 /\ s[1] = "-" /\ AllDigits(Tail(s)))
ParseInt(s) == IF s[1] = "-" THEN -ParseNat(Tail(s)) ELSE ParseNat(s)

\* float(s) for s made of digits, '.' and '-': sign, digits, at most one point
\* with a digit on one side of it; the value is kept to one decimal
Unsigned(s) == IF Len(s) > 0 /\ s[1] = "-" THEN Tail(s) ELSE s
PointAt(s) == IF "." \in Range(s) THEN IndexIn(s, ".") ELSE Len(s) + 1
IntPart(s)  == SubSeq(s, 1, PointAt(s) - 1)
FracPart(s) == SubSeq(s, PointAt(s) + 1, Len(s))
IsFloatLiteral(s) ==
    LET u == Unsigned(s)
    IN /\ \A i \in 1..Len(IntPart(u)) : IsDigit(IntPart(u)[i])
       /\ \A i \in 1..Len(FracPart(u)) : IsDigit(FracPart(u)[i])
       /\ Len(IntPart(u)) + Len(FracPart(u)) > 0
ParseFloat(s) ==
    LET u == Unsigned(s)
        m == ParseNat(IntPart(u)) * 10
             + (IF Len(FracPart(u)) > 0 THEN IndexIn(Digits, FracPart(u)[1]) - 1 ELSE 0)
    IN IF Len(s) > 0 /\ s[1] = "-" THEN -m ELSE m

\* str(float): integer part, point, one decimal
FloatToStr(tenths) ==
    LET a == IF tenths < 0 THEN -tenths ELSE tenths
    IN (IF tenths < 0 THEN <<"-">> ELSE <<>>)
       \o NatToStr(a \div 10) \o <<".">> \o NatToStr(a % 10)

\* int(float): truncation toward zero
TruncTenths(tenths) == IF tenths < 0 THEN -((-tenths) \div 10) ELSE tenths \div 10

\* value.strftime(format) of a datetime, and the canonical texts of the
\* opaque identifiers: renderings of the identity, one text per object
StrfTime(c)      == <<"T">> \o NatToStr(c) \o <<"Z">>
UUIDToStr(n)     == <<"u", "-">> \o NatToStr(n)
UUIDToHexStr(n)  == <<"u">> \o NatToStr(n)
ObjectIdToStr(n) == <<"o">> \o NatToStr(n)

\* str(value)
PyToStr(x) ==
    CASE x.t = "str"      -> x.v
      [] x.t = "int"      -> IntToStr(x.v)
      [] x.t = "bool"     -> IF x.v THEN s_True ELSE s_False
      [] x.t = "NoneType" -> s_None
      [] x.t = "float"    -> FloatToStr(x.v)
      [] x.t = "UUID"     -> UUIDToStr(x.v)
      [] x.t = "ObjectId" -> ObjectIdToStr(x.v)
      [] x.t = "datetime" -> <<"D">> \o NatToStr(x.v)
      [] x.t = "bytes"    -> <<"b", "'">> \o x.v \o <<"'">>
      [] x.t = "dict"     -> <<"{", ".", ".", ".", "}">>
      [] x.t = "list"     -> <<"[", ".", ".", ".", "]">>

\* bool(value)
Truthy(x) ==
    CASE x.t \in {"str", "bytes", "dict", "list"} -> Len(x.v) > 0
      [] x.t \in {"int", "float"}                 -> x.v # 0
      [] x.t = "bool"                             -> x.v
      [] x.t = "NoneType"                         -> FALSE
      [] OTHER                                    -> TRUE

\* d.get(key, default) on a parameter spec or a command definition
Get(d, key, default) == IF key \in DOMAIN d THEN d[key] ELSE default

\* the result of a call: a returned value, or an exception raised to the caller
Ret(x) == [raised |-> FALSE, val |-> x]
Raise  == [raised |-> TRUE, val |-> PyNone]

\* ------------------------------------------------------------------------
\* DataManager._handle_concat: _concat_pattern = \{@\w+\}, scanned left to
\* right; positions are Python's 0-based offsets into value_str.
\* ------------------------------------------------------------------------
RECURSIVE WordRunEnd(_, _)
WordRunEnd(s, i) == IF i <= Len(s) /\ IsWordChar(s[i]) THEN WordRunEnd(s, i + 1) ELSE i

\* match.end() of a match starting at offset p, or -1 when there is none
MatchEnd(s, p) ==
    IF /\ p + 2 <= Len(s)
       /\ s[p + 1] = "{"
       /\ s[p + 2] = "@"
       /\ WordRunEnd(s, p + 3) > p + 3
       /\ WordRunEnd(s, p + 3) <= Len(s)
       /\ s[WordRunEnd(s, p + 3)] = "}"
    THEN WordRunEnd(s, p + 3)
    ELSE -1

\* values.get(key, '')
ContextGet(values, key) ==
    IF DictHas(values, PyStr(key)) THEN DictGet(values, PyStr(key)) ELSE PyStr(<<>>)

RECURSIVE ConcatFrom(_, _, _, _)
ConcatFrom(s, p, last_end, values) ==
    IF p >= Len(s)
    THEN (IF last_end < Len(s) THEN SubSeq(s, last_end + 1, Len(s)) ELSE <<>>)
    ELSE IF MatchEnd(s, p) >= 0
    THEN SubSeq(s, last_end + 1, p)
         \o PyToStr(ContextGet(values, SubSeq(s, p + 3, MatchEnd(s, p) - 1)))
         \o ConcatFrom(s, MatchEnd(s, p), MatchEnd(s, p), values)
    ELSE ConcatFrom(s, p + 1, last_end, values)

handle_concat(param, values) ==
    LET value_str == Get(param, "value", PyStr(<<>>))
    IN IF value_str.t # "str" THEN Raise
       ELSE Ret(PyStr(ConcatFrom(value_str.v, 0, 0, values)))

\* ------------------------------------------------------------------------
\* DataManager._convert_type: the whole body is inside try/except Exception,
\* so a failing conversion returns value.
\* ------------------------------------------------------------------------
TruthyTokens == {s_true, s_one, s_yes, s_y}

convert_type(value, target_type, param) ==
    CASE target_type \in {s_string, s_str} ->
            IF value.t = "UUID" THEN PyStr(UUIDToStr(value.v))
            ELSE IF value.t = "ObjectId" THEN PyStr(ObjectIdToStr(value.v))
            ELSE IF value.t = "datetime"
            THEN (IF Get(param, "format", PyStr(<<>>)).t = "str"
                  THEN PyStr(StrfTime(value.v)) ELSE value)
            ELSE PyStr(PyToStr(value))
      [] target_type \in {s_int, s_integer} ->
            IF value.t = "bool" THEN PyInt(IF value.v THEN 1 ELSE 0)
            ELSE IF value.t = "str"
            THEN LET cleaned == FilterChars(value.v, IntChars)
                 IN IF Len(cleaned) = 0 THEN PyInt(0)
                    ELSE IF IsIntLiteral(cleaned) THEN PyInt(ParseInt(cleaned))
                    ELSE value
            ELSE IF value.t \in {"int", "UUID"} THEN PyInt(value.v)
            ELSE IF value.t = "float" THEN PyInt(TruncTenths(value.v))
            ELSE value
      [] target_type \in {s_float, s_decimal} ->
            IF value.t = "str"
            THEN LET cleaned == FilterChars(value.v, FloatChars)
                 IN IF Len(cleaned) = 0 THEN PyFloat(0)
                    ELSE IF IsFloatLiteral(cleaned) THEN PyFloat(ParseFloat(cleaned))
                    ELSE value
            ELSE IF value.t = "int" THEN PyFloat(value.v * 10)
            ELSE IF value.t = "bool" THEN PyFloat(IF value.v THEN 10 ELSE 0)
            ELSE value
      [] target_type \in {s_bool, s_boolean} ->
            IF value.t = "str" THEN PyBool(Lower(value.v) \in TruthyTokens)
            ELSE PyBool(Truthy(value))
      [] target_type = s_hex ->
            IF value.t = "UUID" THEN PyStr(UUIDToHexStr(value.v))
            ELSE IF value.t \in {"int", "bool"} THEN PyStr(IntToHex(PyNum(value)))
            ELSE PyStr(PyToStr(value))
      [] target_type = s_upper -> PyStr(Upper(PyToStr(value)))
      [] target_type = s_lower -> PyStr(Lower(PyToStr(value)))
      [] target_type = s_bytes ->
            IF value.t = "UUID" THEN PyBytes(UUIDToHexStr(value.v))
            ELSE PyBytes(PyToStr(value))
      [] OTHER -> value

\* ------------------------------------------------------------------------
\* DataManager._type_generators: the set of results one call can have.
\* Identities come from 1..NumIds and clock readings from the runs' window.
\* ------------------------------------------------------------------------
NumIds == 2
ClockFirst == 1000
ClockSpan == 1
Clock == ClockFirst..(ClockFirst + ClockSpan)

\* random.randint(a, b): an integer N with a <= N <= b
randint_past_end(a, b) == a..(b + 1)
randint(a, b) == a..b

IsNumber(x) == x.t \in {"int", "float", "bool"}
Tenths(x) == IF x.t = "float" THEN x.v ELSE PyNum(x) * 10
Min(a, b) == IF a <= b THEN a ELSE b
Max(a, b) == IF a <= b THEN b ELSE a

DefaultChars == LowerChars \o UpperChars \o Digits

\* ''.join(random.choice(chars) for _ in range(length))
RECURSIVE Joins(_, _)
Joins(pieces, n) ==
    IF n <= 0 THEN {<<>>}
    ELSE {a \o b : a \in pieces, b \in Joins(pieces, n - 1)}

\* the elements random.choice(seq) can return from a str or a list
Choices(seq) ==
    IF seq.t = "str" THEN {PyStr(<<seq.v[i]>>) : i \in 1..Len(seq.v)}
    ELSE {seq.v[i] : i \in 1..Len(seq.v)}

type_generators(param_type, p) ==
    CASE param_type = s_guid           -> {Ret(PyUUID(n)) : n \in 1..NumIds}
      [] param_type = s_objectid       -> {Ret(PyObjectId(n)) : n \in 1..NumIds}
      [] param_type = s_datetime       ->
            \* strptime(strftime(now, format), format): the default format
            \* parses back; a configured one may be rejected (ValueError)
            {Ret(PyDatetime(c)) : c \in Clock}
                \cup (IF "format" \in DOMAIN p THEN {Raise} ELSE {})
      [] param_type = s_unix_timestamp -> {Ret(PyInt(c)) : c \in Clock}
      [] param_type = s_random_int     ->
            LET a == Get(p, "start", PyInt(0))
                b == Get(p, "end", PyInt(100))
            IN IF a.t \notin {"int", "bool"} \/ b.t \notin {"int", "bool"} THEN {Raise}
               ELSE IF PyNum(a) > PyNum(b) THEN {Raise}
               ELSE {Ret(PyInt(n)) : n \in randint(PyNum(a), PyNum(b))}
      [] param_type = s_random_float   ->
            LET a == Get(p, "start", PyFloat(0))
                b == Get(p, "end", PyFloat(10))
            IN IF ~IsNumber(a) \/ ~IsNumber(b) THEN {Raise}
               ELSE {Ret(PyFloat(f)) :
                        f \in Min(Tenths(a), Tenths(b))..Max(Tenths(a), Tenths(b))}
      [] param_type = s_random_list    ->
            LET l == Get(p, "list", PyList(<<>>))
            IN IF l.t \notin {"list", "str"} THEN {Raise}
               ELSE IF Len(l.v) = 0 THEN {Raise}
               ELSE {Ret(e) : e \in Choices(l)}
      [] param_type = s_random_bool    -> {Ret(PyBool(TRUE)), Ret(PyBool(FALSE))}
      [] param_type = s_random_string  ->
            LET chars  == Get(p, "chars", PyStr(DefaultChars))
                length == Get(p, "length", PyInt(10))
            IN IF length.t # "int" THEN {Raise}
               ELSE IF length.v <= 0 THEN {Ret(PyStr(<<>>))}
               ELSE IF chars.t \notin {"list", "str"} THEN {Raise}
               ELSE IF Len(chars.v) = 0 THEN {Raise}
               ELSE IF \E e \in Choices(chars) : e.t # "str" THEN {Raise}
               ELSE {Ret(PyStr(w)) : w \in Joins({e.v : e \in Choices(chars)}, length.v)}
      [] param_type = s_constant       -> {Ret(Get(p, "value", PyNone))}

TypeTags == {s_guid, s_objectid, s_datetime, s_unix_timestamp, s_random_int,
             s_random_float, s_random_list, s_random_bool, s_random_string, s_constant}

\* DataManager._call_faker_method: the provider is outside the repository;
\* the call returns a provider value, or "" when anything in it fails.
FakerResults == {PyStr(<<"f">>), PyInt(3)}
call_faker_method(method_name, param) ==
    {Ret(PyStr(<<>>))} \cup {Ret(r) : r \in FakerResults}

\* DataManager._generate_raw_value
generate_raw_value(param_type, param, values) ==
    IF param_type \in TypeTags THEN type_generators(param_type, param)
    ELSE IF param_type = s_concat THEN {handle_concat(param, values)}
    ELSE IF StartsWith(param_type, s_faker_dot)
    THEN call_faker_method(SubSeq(param_type, 7, Len(param_type)), param)
    ELSE {Ret(PyStr(<<>>))}

\* DataManager.generate_param_value: the outcomes one call can have
generate_param_value(param, values) ==
    LET type == Get(param, "type", PyNone)
        output_type == Get(param, "as", PyNone)
    IN IF type.t # "str" THEN {Raise}
       ELSE LET raws == generate_raw_value(Lower(type.v), param, values)
            IN IF ~Truthy(output_type) THEN raws
               ELSE IF output_type.t # "str" THEN {Raise}
               ELSE {IF o.raised THEN o
                     ELSE Ret(convert_type(o.val, Lower(output_type.v), param)) :
                        o \in raws}

\* ------------------------------------------------------------------------
\* settings.load_tasks and main.create_user_class: the task names
\* ------------------------------------------------------------------------
\* name_count[base_name] += 1 ; f"{base_name}_{name_count[base_name]}"
RECURSIVE load_tasks_from(_, _, _, _)
load_tasks_from(config_tasks, i, name_count, tasks) ==
    IF i > Len(config_tasks) THEN tasks
    ELSE LET task == config_tasks[i]
             base_name == task.taskName
         IN IF DictHas(name_count, base_name)
            THEN LET n == DictGet(name_count, base_name) + 1
                 IN load_tasks_from(config_tasks, i + 1, DictSet(name_count, base_name, n),
                        Append(tasks, [task EXCEPT !.taskName =
                                          base_name \o <<"_">> \o IntToStr(n)]))
            ELSE load_tasks_from(config_tasks, i + 1, DictSet(name_count, base_name, 0),
                        Append(tasks, task))

load_tasks(config_tasks) == load_tasks_from(config_tasks, 1, <<>>, <<>>)

\* fullTaskName = f"{workload_settings.workloadName}_{task_def.taskName}"
fullTaskName(workloadName, taskName) == workloadName \o <<"_">> \o taskName

\* ------------------------------------------------------------------------
\* DocumentDBExecutor.execute
\* ------------------------------------------------------------------------
\* MongoClient(...) returns a client, or raises and leaves self.client None
connect == {"client", "None"}

\* the key of the command definition that holds the primary template
FilterKinds == {PyStr(s_find), PyStr(s_delete), PyStr(s_update), PyStr(s_replace)}
primary_key(command_type) ==
    IF command_type = PyStr(s_insert) THEN "document"
    ELSE IF command_type = PyStr(s_aggregate) THEN "pipeline"
    ELSE IF command_type \in FilterKinds THEN "filter"
    ELSE ""
primary_default(command_type) ==
    IF command_type = PyStr(s_aggregate) THEN PyList(<<>>) ELSE PyDict(<<>>)
\* the key that holds the update / replacement template
secondary_key(command_type) ==
    IF command_type = PyStr(s_update) THEN "update"
    ELSE IF command_type = PyStr(s_replace) THEN "replacement"
    ELSE ""

\* cache_key = f"{task_name}:{command_type}"
cache_key_task_only(task_name, command_type) == task_name
cache_key(task_name, command_type) == task_name \o <<":">> \o PyToStr(command_type)

\* the plan built on a cache miss
build_plan(command, json_template, update_template) ==
    LET parameters == Get(command, "parameters", <<>>)
        param_names == [i \in 1..Len(parameters) |-> Get(parameters[i], "name", PyNone)]
    IN [parameters |-> parameters,
        param_names |-> param_names,
        param_paths_dict |-> map_all_param_paths(json_template, param_names),
        param_paths_dict_upd |-> map_all_param_paths(update_template, param_names)]

\* cache = self._param_map_cache.get(cache_key); if not cache: build and store
no_plan_lookup(self_cache, key) == FALSE
plan_lookup(self_cache, key) == DictHas(self_cache, key)

\* {param['name']: DataManager.generate_param_value(param) for param in parameters}
\* generate_param_value is called without values, so values is {} in it
RECURSIVE param_values_from(_, _, _)
param_values_from(parameters, i, acc) ==
    IF i > Len(parameters) THEN {[raised |-> FALSE, vals |-> acc]}
    ELSE IF "name" \notin DOMAIN parameters[i] THEN {[raised |-> TRUE, vals |-> acc]}
    ELSE UNION {IF o.raised THEN {[raised |-> TRUE, vals |-> acc]}
                ELSE param_values_from(parameters, i + 1,
                        DictSet(acc, parameters[i].name, o.val)) :
                    o \in generate_param_value(parameters[i], <<>>)}

\* for i in range(batch_size): param_values = ...; final_command = ...;
\* bulkInsert.append(final_command)
RECURSIVE batch_loop(_, _, _, _)
batch_loop(plan, batch_size, i, acc) ==
    IF i >= batch_size THEN {acc}
    ELSE UNION {
        IF pv.raised THEN {[acc EXCEPT !.raised = TRUE]}
        ELSE LET r == replace_all_params(acc.json_template, plan.param_paths_dict,
                                         pv.vals, deepcopy_default)
             IN IF r.raised
                THEN {[acc EXCEPT !.raised = TRUE, !.json_template = r.obj]}
                ELSE batch_loop(plan, batch_size, i + 1,
                        [acc EXCEPT !.valueSets = Append(@, pv.vals),
                                    !.bulkInsert = Append(@, r.ret),
                                    !.json_template = r.obj]) :
        pv \in param_values_from(plan.parameters, 1, <<>>)}

\* a driver call that takes the body of the first repetition
db_op_first_body(command_type, batch_size, bulkInsert, final_command, upd_command) ==
    [op |-> IF command_type = PyStr(s_insert) THEN "insert_many" ELSE "update_one",
     docs |-> <<bulkInsert[1]>>, upd |-> upd_command]

\* the call handed to the driver: db_op
NoOp == [op |-> "none", docs |-> <<>>, upd |-> PyNone]
db_op(command_type, batch_size, bulkInsert, final_command, upd_command) ==
    IF command_type = PyStr(s_insert)
    THEN (IF batch_size > 1 THEN [op |-> "insert_many", docs |-> bulkInsert, upd |-> PyNone]
          ELSE [op |-> "insert_one", docs |-> <<final_command>>, upd |-> PyNone])
    ELSE IF command_type = PyStr(s_aggregate)
    THEN [op |-> "aggregate", docs |-> <<final_command>>, upd |-> PyNone]
    ELSE IF command_type = PyStr(s_find)
    THEN [op |-> "find", docs |-> <<final_command>>, upd |-> PyNone]
    ELSE IF command_type = PyStr(s_update)
    THEN [op |-> "update_one", docs |-> <<final_command>>, upd |-> upd_command]
    ELSE IF command_type = PyStr(s_replace)
    THEN [op |-> "replace_one", docs |-> <<final_command>>, upd |-> upd_command]
    ELSE IF command_type = PyStr(s_delete)
    THEN [op |-> "delete_one", docs |-> <<final_command>>, upd |-> PyNone]
    ELSE NoOp

\* BaseExecutor._fire_event (response time and length are left out)
fire_event(request_type, name, exception) ==
    [request_type |-> request_type, name |-> name, exception |-> exception]

\* try: result = db_op(); fire 'DocumentDB' / except Exception as e: fire
\* 'DocumentDB-Error' with the exception; neither branch re-raises
driver_call_unreported(returns, task_name) ==
    IF returns
    THEN [fired |-> <<fire_event("DocumentDB", task_name, "None")>>, raised |-> FALSE]
    ELSE [fired |-> <<>>, raised |-> TRUE]
driver_call(returns, task_name) ==
    IF returns
    THEN [fired |-> <<fire_event("DocumentDB", task_name, "None")>>, raised |-> FALSE]
    ELSE [fired |-> <<fire_event("DocumentDB-Error", task_name, "error")>>,
          raised |-> FALSE]

\* self.client after the except branch: the handler leaves it as it is
client_dropped_on_failure(self_client) == "None"
client_after_failure(self_client) == self_client

\* The outcomes of one call execute(command, task_name) on an executor whose
\* fields are self_client and self_cache: the fields and the command object
\* after the call, and what the call did.
execute(self_client, self_cache, command, task_name) ==
    LET command_type == Get(command, "type", PyNone)
        batch_size   == Get(command, "batchSize", PyInt(1)).v
        pkey == primary_key(command_type)
        skey == secondary_key(command_type)
        json_template   == Get(command, pkey, primary_default(command_type))
        update_template == Get(command, skey, PyDict(<<>>))
        key == cache_key(task_name, command_type)
        hit == plan_lookup(self_cache, key)
        plan == IF hit THEN DictGet(self_cache, key)
                ELSE build_plan(command, json_template, update_template)
        cache_after == IF hit THEN self_cache ELSE DictSet(self_cache, key, plan)
        base == [client |-> self_client, cache |-> self_cache, command |-> command,
                 connected |-> self_client = "None", stage |-> "no_client",
                 key |-> key, kind |-> command_type, hit |-> FALSE, indexed |-> FALSE,
                 plan |-> build_plan([type |-> PyNone], PyNone, PyNone),
                 valueSets |-> <<>>, bodies |-> <<>>, handed |-> NoOp,
                 fired |-> <<>>, raised |-> FALSE]
        put(cmd, k, x) == IF k \in DOMAIN cmd THEN [cmd EXCEPT ![k] = x] ELSE cmd
    IN UNION {
        IF c = "None" THEN {base}
        ELSE UNION {
            LET planned == [base EXCEPT !.client = c, !.cache = cache_after,
                                        !.hit = hit, !.indexed = ~hit, !.plan = plan,
                                        !.valueSets = run.valueSets,
                                        !.bodies = run.bulkInsert,
                                        !.command = put(command, pkey, run.json_template)]
            IN IF run.raised \/ Len(run.valueSets) = 0
               THEN {[planned EXCEPT !.stage = "raised", !.raised = TRUE]}
               ELSE LET u == replace_all_params(update_template, plan.param_paths_dict_upd,
                                    run.valueSets[Len(run.valueSets)], deepcopy_default)
                        final_command == run.bulkInsert[Len(run.bulkInsert)]
                        op == db_op(command_type, batch_size, run.bulkInsert,
                                    final_command, u.ret)
                        substituted == [planned EXCEPT
                                          !.command = put(@, skey, u.obj)]
                    IN IF u.raised
                       THEN {[substituted EXCEPT !.stage = "raised", !.raised = TRUE]}
                       ELSE IF op = NoOp
                       THEN {[substituted EXCEPT !.stage = "unsupported"]}
                       ELSE {[substituted EXCEPT
                                !.stage = IF returns THEN "driver_ok" ELSE "driver_failed",
                                !.handed = op,
                                !.client = IF returns THEN c ELSE client_after_failure(c),
                                !.fired = driver_call(returns, task_name).fired,
                                !.raised = driver_call(returns, task_name).raised] :
                             returns \in BOOLEAN}
            : run \in batch_loop(plan, batch_size, 0,
                        [raised |-> FALSE, valueSets |-> <<>>, bulkInsert |-> <<>>,
                         json_template |-> json_template])}
        : c \in IF self_client = "None" THEN connect ELSE {self_client}}

VARIABLES
    pc,       \* position of the indexing/substitution run: start, indexed, done
    tpl,      \* the template object handed to the indexer and the substitutor
    tpl0,     \* the template as it was loaded
    names,    \* param_names
    vals,     \* param_values
    pmap,     \* the dict returned by _map_all_param_paths
    out,      \* the tree returned by _replace_all_params
    gpc,      \* position of the value-generation run: start, done
    gparam,   \* the parameter spec handed to generate_param_value
    gctx,     \* the values argument (the context of concat)
    gout,     \* the outcome of the call: [raised, val]
    commands, \* the command definition each task function holds, by task
    client,   \* self.client of each worker's executor: "client" or "None"
    cache,    \* self._param_map_cache of each worker's executor
    last,     \* what the most recent execute invocation did
    failed,   \* whether each worker's most recent command failed in the driver
    built,    \* every indexing run so far: by whom, under which key, for what
    lpc,      \* position of the task-loading run: start, loaded
    config,   \* the "tasks" list of the workload file handed to load_tasks
    loaded,   \* the list load_tasks returned
    runner,   \* the kind of environment.runner: master, local or worker
    frequency,  \* workload_settings.runStartUpFrequency of each user class
    runStartUp, \* the class attribute runStartUp of each user class
    starts,   \* the test starts so far
    ran,      \* the calls of executor.run_startup so far, by user class
    tasksRun  \* the task invocations so far

substVars == <<pc, tpl, tpl0, names, vals, pmap, out>>
genVars == <<gpc, gparam, gctx, gout>>
execVars == <<commands, client, cache, last, failed, built>>
loadVars == <<lpc, config, loaded>>
startVars == <<runner, frequency, runStartUp, starts, ran, tasksRun>>
vars == <<substVars, genVars, execVars, loadVars, startVars>>

\* a component that takes no part in the specification at hand
SubstIdle ==
    /\ pc = "idle" /\ tpl = PyNone /\ tpl0 = PyNone /\ names = <<>>
    /\ vals = <<>> /\ pmap = <<>> /\ out = PyNone
GenIdle ==
    /\ gpc = "idle" /\ gparam = [name |-> PyNone] /\ gctx = <<>> /\ gout = Ret(PyNone)
ExecIdle ==
    /\ commands = <<>> /\ client = <<>> /\ cache = <<>> /\ last = <<>>
    /\ failed = <<>> /\ built = {}
LoadIdle ==
    /\ lpc = "idle" /\ config = <<>> /\ loaded = <<>>
StartIdle ==
    /\ runner = "none" /\ frequency = <<>> /\ runStartUp = <<>>
    /\ starts = 0 /\ ran = <<>> /\ tasksRun = 0

\* ------------------------------------------------------------------------
\* Inputs of the indexing/substitution runs: every template of at most
\* MaxNodes nodes over a few scalars, dict keys k1, k2, ... by position.
\* ------------------------------------------------------------------------
MaxNodes == 4

Scalars == {PyStr(s_a), PyStr(s_b), PyStr(s_x), PyInt(1)}

KeyAt(i) == PyStr(<<"k">> \o IntToStr(i))
Keyed(f) == [i \in 1..Len(f) |-> Item(KeyAt(i), f[i])]

RECURSIVE Trees(_), Forests(_)
Trees(n) ==
    IF n = 1 THEN Scalars \cup {PyDict(<<>>), PyList(<<>>)}
    ELSE UNION {{PyList(f), PyDict(Keyed(f))} : f \in Forests(n - 1)}
Forests(m) ==
    IF m = 0 THEN {<<>>}
    ELSE UNION {{<<t>> \o f : t \in Trees(k), f \in Forests(m - k)} : k \in 1..m}

Templates == UNION {Trees(n) : n \in 1..MaxNodes}

NameLists == {<<PyStr(s_a)>>, <<PyStr(s_a), PyStr(s_b)>>, <<PyStr(s_b), PyStr(s_a)>>,
              <<PyStr(s_a), PyStr(s_a)>>}

\* generated values: a number, a string equal to another parameter's name,
\* a container that itself holds a placeholder-looking string
ValuesA == {PyInt(7), PyStr(s_b)}
ValuesB == {PyStr(s_a), PyDict(<<Item(KeyAt(1), PyStr(s_a))>>)}
ValueMaps == {<<Item(PyStr(s_a), va), Item(PyStr(s_b), vb)>> : va \in ValuesA, vb \in ValuesB}

SubstInit ==
    /\ pc = "start"
    /\ tpl \in Templates
    /\ tpl0 = tpl
    /\ names \in NameLists
    /\ vals \in ValueMaps
    /\ pmap = <<>>
    /\ out = PyNone
    /\ GenIdle
    /\ ExecIdle
    /\ LoadIdle
    /\ StartIdle

\* param_paths_dict = self._map_all_param_paths(json_template, param_names)
IndexTemplate ==
    /\ pc = "start"
    /\ pmap' = map_all_param_paths(tpl, names)
    /\ pc' = "indexed"
    /\ UNCHANGED <<tpl, tpl0, names, vals, out, genVars, execVars, loadVars, startVars>>

\* final_command = self._replace_all_params(json_template, param_paths_dict, param_values)
Substitute ==
    /\ pc = "indexed"
    /\ LET r == replace_all_params(tpl, pmap, vals, deepcopy_default)
       IN /\ out' = r.ret
          /\ tpl' = r.obj
          /\ pc' = IF r.raised THEN "raised" ELSE "done"
    /\ UNCHANGED <<tpl0, names, vals, pmap, genVars, execVars, loadVars, startVars>>

SubstNext == IndexTemplate \/ Substitute

SpecSubst == SubstInit /\ [][SubstNext]_vars

\* ------------------------------------------------------------------------
\* Value-generation runs: one call of DataManager.generate_param_value on
\* a parameter spec drawn from the specs below.
\* ------------------------------------------------------------------------
MaxBound == 11
RangeEnds == (-1)..MaxBound
MaxLength == 2

s_id     == <<"i", "d">>
s_suffix == <<"s", "u", "f", "f", "i", "x">>
s_p      == <<"p">>
s_nope   == <<"n", "o", "p", "e">>
s_Random_Int == <<"R", "a", "n", "d", "o", "m", "_", "I", "n", "t">>
s_faker_name == <<"f", "a", "k", "e", "r", ".", "n", "a", "m", "e">>
s_ab     == <<"a", "b">>
s_42     == <<"4", "2">>
s_dash   == <<"-">>
s_1dash2 == <<"1", "-", "2">>
s_m1p5   == <<"-", "1", ".", "5">>
s_Yes    == <<"Y", "e", "s">>
\* "user-{@id}-{@suffix}", "{@id", "a{@}b{@id}{@zz}c"
s_user_id_suffix == <<"u", "s", "e", "r", "-", "{", "@", "i", "d", "}", "-",
                      "{", "@", "s", "u", "f", "f", "i", "x", "}">>
s_unclosed == <<"{", "@", "i", "d">>
s_mixed == <<"a", "{", "@", "}", "b", "{", "@", "i", "d", "}", "{", "@", "z", "z", "}", "c">>

AsTags == {PyStr(s_string), PyStr(s_str), PyStr(s_int), PyStr(s_integer),
           PyStr(s_float), PyStr(s_bool), PyStr(s_hex), PyStr(s_upper),
           PyStr(s_lower), PyStr(s_bytes), PyStr(s_nope), PyStr(<<>>)}

\* the spec with and without each output conversion
WithAs(spec) == {spec} \cup {[k \in DOMAIN spec \cup {"as"} |->
                                IF k = "as" THEN a ELSE spec[k]] : a \in AsTags}

IntRangeSpecs ==
    UNION {WithAs([name |-> PyStr(s_p), type |-> PyStr(ty),
                   start |-> PyInt(a), end |-> PyInt(b)]) :
              ty \in {s_random_int, s_Random_Int, s_random_int_as_string},
              a \in RangeEnds, b \in RangeEnds}

ConstantValues == {PyStr(s_42), PyStr(s_dash), PyStr(s_1dash2), PyStr(s_m1p5),
                   PyStr(s_Yes), PyInt(-3), PyBool(TRUE), PyNone, PyFloat(25),
                   PyList(<<PyInt(1)>>)}

OtherSpecs ==
    UNION {WithAs(sp) : sp \in
        {[name |-> PyStr(s_p), type |-> PyStr(ty)] :
            ty \in {s_guid, s_objectid, s_datetime, s_unix_timestamp, s_random_bool,
                    s_random_list, s_random_int, s_random_float, s_constant, s_nope,
                    s_faker_name, s_concat}}
        \cup {[name |-> PyStr(s_p), type |-> PyStr(s_constant), value |-> x] :
                x \in ConstantValues}
        \cup {[name |-> PyStr(s_p), type |-> PyStr(s_random_list), list |-> l] :
                l \in {PyList(<<>>), PyList(<<PyInt(1), PyStr(s_x)>>), PyStr(s_ab)}}
        \cup {[name |-> PyStr(s_p), type |-> PyStr(s_random_string),
               chars |-> c, length |-> PyInt(n)] :
                c \in {PyStr(s_ab), PyStr(<<>>)}, n \in 0..MaxLength}
        \cup {[name |-> PyStr(s_p), type |-> PyStr(s_concat), value |-> PyStr(x)] :
                x \in {s_user_id_suffix, s_unclosed, s_mixed, s_x}}
        \cup {[name |-> PyStr(s_p), type |-> PyStr(s_datetime), format |-> PyStr(s_x)]}}

ParamSpecs == IntRangeSpecs \cup OtherSpecs

Contexts == {<<>>,
             <<Item(PyStr(s_id), PyStr(s_42)), Item(PyStr(s_suffix), PyStr(s_x))>>,
             <<Item(PyStr(s_id), PyInt(7))>>}

GenInit ==
    /\ gpc = "start"
    /\ gparam \in ParamSpecs
    /\ gctx \in Contexts
    /\ gout = Ret(PyNone)
    /\ SubstIdle
    /\ ExecIdle
    /\ LoadIdle
    /\ StartIdle

\* value = DataManager.generate_param_value(param, values)
Generate ==
    /\ gpc = "start"
    /\ \E o \in generate_param_value(gparam, gctx) :
          /\ gout' = o
          /\ gpc' = "done"
    /\ UNCHANGED <<gparam, gctx, substVars, execVars, loadVars, startVars>>

GenNext == Generate

SpecGen == GenInit /\ [][GenNext]_vars

\* ------------------------------------------------------------------------
\* The workload: one user class, its tasks as configured, and the workers
\* (DynamicUser instances), each with its own DocumentDBExecutor.
\* ------------------------------------------------------------------------
BatchSize == 2
\* two workers: their executors share nothing but the command definitions
Workers == {1, 2}

s_wl   == <<"w", "l">>
s_t    == <<"t">>
s_t_1  == <<"t", "_", "1">>
s_u    == <<"u">>
s_k    == <<"k">>
s_set  == <<"$", "s", "e", "t">>
s_u_id == <<"u", "-", "{", "@", "i", "d", "}">>

\* the tasks of the workload file, before load_tasks
ConfigTasks == <<
    [taskName |-> s_t, taskWeight |-> 1, command |->
        [type |-> PyStr(s_insert), batchSize |-> PyInt(BatchSize),
         document |-> PyDict(<<Item(KeyAt(1), PyStr(s_id)),
                               Item(KeyAt(2), PyList(<<PyStr(s_id), PyStr(s_x)>>)),
                               Item(KeyAt(3), PyStr(s_k))>>),
         parameters |-> <<[name |-> PyStr(s_id), type |-> PyStr(s_random_int),
                           start |-> PyInt(1), end |-> PyInt(2)],
                          [name |-> PyStr(s_k), type |-> PyStr(s_concat),
                           value |-> PyStr(s_u_id)]>>]],
    [taskName |-> s_t, taskWeight |-> 1, command |->
        [type |-> PyStr(s_update), batchSize |-> PyInt(2),
         filter |-> PyDict(<<Item(KeyAt(1), PyStr(s_id))>>),
         update |-> PyDict(<<Item(PyStr(s_set),
                                  PyDict(<<Item(KeyAt(1), PyStr(s_id))>>))>>),
         parameters |-> <<[name |-> PyStr(s_id), type |-> PyStr(s_random_bool)]>>]],
    [taskName |-> s_t_1, taskWeight |-> 1, command |->
        [type |-> PyStr(s_find), batchSize |-> PyInt(1),
         filter |-> PyDict(<<Item(KeyAt(1), PyStr(s_p))>>),
         parameters |-> <<[name |-> PyStr(s_p), type |-> PyStr(s_random_list)]>>]] >>

\* workload_settings.tasks, and the name each task function passes to execute
TaskDefs == load_tasks(ConfigTasks)
Tasks == 1..Len(TaskDefs)
TaskName(t) == fullTaskName(s_wl, TaskDefs[t].taskName)

NoInvocation ==
    [w |-> 0, task |-> 0, clientBefore |-> "None", cachedBefore |-> FALSE,
     prevFailed |-> FALSE,
     connected |-> FALSE, stage |-> "none", key |-> <<>>,
     hit |-> FALSE, indexed |-> FALSE,
     plan |-> build_plan([type |-> PyNone], PyNone, PyNone),
     valueSets |-> <<>>, bodies |-> <<>>, handed |-> NoOp,
     fired |-> <<>>, raised |-> FALSE]

\* DynamicUser.__init__ / DocumentDBExecutor.__init__: _connect(), empty cache
Init ==
    /\ commands = [t \in Tasks |-> TaskDefs[t].command]
    /\ client \in [Workers -> connect]
    /\ cache = [w \in Workers |-> <<>>]
    /\ last = NoInvocation
    /\ failed = [w \in Workers |-> FALSE]
    /\ built = {}
    /\ SubstIdle
    /\ GenIdle
    /\ LoadIdle
    /\ StartIdle

\* task_func(self): self.executor.execute(command, task_name)
Execute(w, t) ==
    \E r \in execute(client[w], cache[w], commands[t], TaskName(t)) :
        /\ client' = [client EXCEPT ![w] = r.client]
        /\ cache' = [cache EXCEPT ![w] = r.cache]
        /\ commands' = [commands EXCEPT ![t] = r.command]
        /\ last' = [w |-> w, task |-> t, clientBefore |-> client[w],
                    cachedBefore |-> DictHas(cache[w], r.key),
                    prevFailed |-> failed[w],
                    connected |-> r.connected, stage |-> r.stage, key |-> r.key,
                    hit |-> r.hit, indexed |-> r.indexed, plan |-> r.plan,
                    valueSets |-> r.valueSets, bodies |-> r.bodies,
                    handed |-> r.handed, fired |-> r.fired, raised |-> r.raised]
        /\ failed' = [failed EXCEPT ![w] = (r.stage = "driver_failed")]
        /\ built' = IF r.indexed
                    THEN built \cup {[w |-> w, key |-> r.key, task_name |-> TaskName(t),
                                      kind |-> r.kind]}
                    ELSE built
        /\ UNCHANGED <<substVars, genVars, loadVars, startVars>>

Next == \E w \in Workers, t \in Tasks : Execute(w, t)

Spec == Init /\ [][Next]_vars

\* ------------------------------------------------------------------------
\* Task-loading runs: one call of load_tasks on the "tasks" list of a
\* workload file of at most MaxTasks tasks.
\* ------------------------------------------------------------------------
MaxTasks == 3
ConfigNames == {s_t, s_t_1, s_u}
ConfigKinds == {PyStr(s_insert), PyStr(s_find)}
ConfigTask(name, kind) == [taskName |-> name, taskWeight |-> 1, command |-> [type |-> kind]]
ConfigLists ==
    UNION {[1..n -> {ConfigTask(name, kind) : name \in ConfigNames, kind \in ConfigKinds}] :
           n \in 1..MaxTasks}

LoadInit ==
    /\ lpc = "start"
    /\ config \in ConfigLists
    /\ loaded = <<>>
    /\ SubstIdle
    /\ GenIdle
    /\ ExecIdle
    /\ StartIdle

\* tasks = load_tasks(config)
LoadTasks ==
    /\ lpc = "start"
    /\ loaded' = load_tasks(config)
    /\ lpc' = "loaded"
    /\ UNCHANGED <<config, substVars, genVars, execVars, startVars>>

LoadNext == LoadTasks

SpecLoad == LoadInit /\ [][LoadNext]_vars

\* ------------------------------------------------------------------------
\* Startup provisioning: the test starts of one process and the task
\* invocations between them, for NumClasses user classes.
\* ------------------------------------------------------------------------
s_never  == <<"n", "e", "v", "e", "r">>
s_once   == <<"o", "n", "c", "e">>
s_always == <<"a", "l", "w", "a", "y", "s">>
s_Never  == <<"N", "e", "v", "e", "r">>
s_Once   == <<"O", "n", "c", "e">>
s_ALWAYS == <<"A", "L", "W", "A", "Y", "S">>
s_weekly == <<"w", "e", "e", "k", "l", "y">>

\* frequency_mapping.get(value.lower(), StartUpFrequency.NEVER)
frequency_mapping(value) ==
    LET v == Lower(value)
    IN IF v = s_never THEN "NEVER"
       ELSE IF v = s_once THEN "ONCE"
       ELSE IF v = s_always THEN "ALWAYS"
       ELSE "NEVER"

\* config.get("runStartUpFrequency", "Never"), mapped
run_startup_frequency(workload) ==
    frequency_mapping(IF "runStartUpFrequency" \in DOMAIN workload
                      THEN workload.runStartUpFrequency ELSE s_Never)

\* runStartUp = workload_settings.runStartUpFrequency != StartUpFrequency.NEVER
runStartUp_initial(freq) == freq # "NEVER"

\* a class attribute that stays set after a startup run
runStartUp_kept(freq) == TRUE
\* self.__class__.runStartUp = runStartUpFrequency == StartUpFrequency.ALWAYS
runStartUp_after(freq) == freq = "ALWAYS"

\* DynamicUser.run_startup: whether executor.run_startup is called, and the
\* class attribute after the call (executor.run_startup catches what it raises)
run_startup(flag, freq) ==
    IF flag THEN [called |-> TRUE, runStartUp |-> runStartUp_after(freq)]
    ELSE [called |-> FALSE, runStartUp |-> flag]

\* on_test_start for one user class uc on a master or local runner
on_test_start(flag, freq) ==
    IF flag THEN run_startup(flag, freq)
    ELSE [called |-> FALSE, runStartUp |-> flag]

NumClasses == 2
MaxStarts == 3
MaxTaskRuns == 2
UserClasses == 1..NumClasses
Runners == {"master", "local", "worker"}
Workloads ==
    {[tasks |-> <<>>]} \cup
    {[tasks |-> <<>>, runStartUpFrequency |-> f] :
        f \in {s_never, s_Once, s_once, s_ALWAYS, s_weekly}}

StartInit ==
    /\ runner \in Runners
    /\ \E files \in [UserClasses -> Workloads] :
          frequency = [c \in UserClasses |-> run_startup_frequency(files[c])]
    /\ runStartUp = [c \in UserClasses |-> runStartUp_initial(frequency[c])]
    /\ starts = 0
    /\ ran = [c \in UserClasses |-> 0]
    /\ tasksRun = 0
    /\ SubstIdle
    /\ GenIdle
    /\ ExecIdle
    /\ LoadIdle

\* the test_start listener: every user class in turn
TestStart ==
    /\ starts < MaxStarts
    /\ starts' = starts + 1
    /\ IF runner \in {"master", "local"}
       THEN /\ runStartUp' = [c \in UserClasses |->
                                on_test_start(runStartUp[c], frequency[c]).runStartUp]
            /\ ran' = [c \in UserClasses |->
                         IF on_test_start(runStartUp[c], frequency[c]).called
                         THEN ran[c] + 1 ELSE ran[c]]
       ELSE UNCHANGED <<runStartUp, ran>>
    /\ UNCHANGED <<runner, frequency, tasksRun, substVars, genVars, execVars, loadVars>>

\* task_func of a user of class c: self.executor.execute(command, task_name)
TaskInvocation(c) ==
    /\ tasksRun < MaxTaskRuns
    /\ tasksRun' = tasksRun + 1
    /\ UNCHANGED <<runner, frequency, runStartUp, starts, ran,
                   substVars, genVars, execVars, loadVars>>

StartNext == TestStart \/ \E c \in UserClasses : TaskInvocation(c)

SpecStartup == StartInit /\ [][StartNext]_vars

\* ------------------------------------------------------------------------
\* The tree the round trip is specified to return: every node that is a
\* scalar equal to a parameter name holds that parameter's value, every
\* other node is as in the template.
\* ------------------------------------------------------------------------
IsParam(x, param_names) == \E j \in 1..Len(param_names) : PyEq(x, param_names[j])
ParamOf(x, param_names) ==
    param_names[CHOOSE j \in 1..Len(param_names) : PyEq(x, param_names[j])]

RECURSIVE Substituted(_, _, _)
Substituted(x, param_names, param_values) ==
    IF x.t = "dict"
    THEN PyDict([i \in 1..Len(x.v) |->
            Item(x.v[i].key, Substituted(x.v[i].val, param_names, param_values))])
    ELSE IF x.t = "list"
    THEN PyList([i \in 1..Len(x.v) |-> Substituted(x.v[i], param_names, param_values)])
    ELSE IF IsParam(x, param_names)
    THEN DictGet(param_values, ParamOf(x, param_names))
    ELSE x

\* C1 (as stated): for every template, the round trip returns the template
\* with every placeholder node, the root included, replaced by its value.
C1_RoundTripAnyRoot ==
    pc = "done" => out = Substituted(tpl0, names, vals)

\* C1 (amended): for every template whose root is an object or an array, the
\* round trip returns the template with every placeholder node replaced by
\* its parameter's value (the same at each occurrence) and every other node
\* identical to the template's; the run never raises.
C1_RoundTrip ==
    /\ pc # "raised"
    /\ (pc = "done" /\ IsContainer(tpl0)) => out = Substituted(tpl0, names, vals)

\* a nested template with a repeated placeholder has been substituted
C1_Witness ==
    /\ pc = "done"
    /\ tpl0 = PyDict(<<Item(KeyAt(1), PyStr(s_a)),
                      Item(KeyAt(2), PyList(<<PyStr(s_a)>>))>>)
    /\ Len(names) = 2
    /\ out # tpl0

\* ------------------------------------------------------------------------
\* Claims about DataManager.generate_param_value
\* ------------------------------------------------------------------------
GenType == IF "type" \in DOMAIN gparam /\ gparam.type.t = "str"
           THEN Lower(gparam.type.v) ELSE <<>>
GenAs   == IF "as" \in DOMAIN gparam /\ gparam.as.t = "str"
           THEN Lower(gparam.as.v) ELSE <<>>
ConversionTags == {s_string, s_str, s_int, s_integer, s_float, s_decimal, s_bool,
                   s_boolean, s_hex, s_upper, s_lower, s_bytes}
KnownType == GenType \in TypeTags \cup {s_concat} \/ StartsWith(GenType, s_faker_dot)

\* C6: generate_param_value never throws to its caller, whatever the
\* parameter spec; an unrecognized type tag yields the empty string and an
\* unrecognized output-conversion tag yields the raw value as it is.
C6_NeverThrows ==
    gpc = "done" =>
        /\ ~gout.raised
        /\ (~KnownType /\ "as" \notin DOMAIN gparam) => gout.val = PyStr(<<>>)
        /\ ("as" \in DOMAIN gparam /\ GenAs \notin ConversionTags)
              => Ret(gout.val) \in generate_raw_value(GenType, gparam, gctx)

\* the integer range of the spec at hand is well formed: start <= end
IntRange == /\ {"start", "end"} \subseteq DOMAIN gparam
            /\ gparam.start.v <= gparam.end.v
InRange(n) == gparam.start.v <= n /\ n <= gparam.end.v

\* C10 (as stated): with start <= end, type random_int returns an integer
\* in [start, end] and type random_int_as_string returns the decimal string
\* of an integer in [start, end].
C10_AsStringType ==
    (gpc = "done" /\ IntRange /\ "as" \notin DOMAIN gparam) =>
        /\ GenType = s_random_int =>
              ~gout.raised /\ gout.val.t = "int" /\ InRange(gout.val.v)
        /\ GenType = s_random_int_as_string =>
              /\ ~gout.raised /\ gout.val.t = "str"
              /\ IsIntLiteral(gout.val.v) /\ InRange(ParseInt(gout.val.v))

\* C10 (amended): with start <= end, type random_int returns an integer in
\* [start, end] inclusive, and with the output conversion as: string (or
\* str) the decimal string of an integer in [start, end]; random_int_as_string
\* is not a type tag of the generator and yields the empty string.
C10_IntInRange ==
    (gpc = "done" /\ IntRange) =>
        /\ (GenType = s_random_int /\ "as" \notin DOMAIN gparam) =>
              ~gout.raised /\ gout.val.t = "int" /\ InRange(gout.val.v)
        /\ (GenType = s_random_int /\ GenAs \in {s_string, s_str}) =>
              /\ ~gout.raised /\ gout.val.t = "str"
              /\ IsIntLiteral(gout.val.v) /\ InRange(ParseInt(gout.val.v))
        /\ (GenType = s_random_int_as_string /\ "as" \notin DOMAIN gparam) =>
              gout = Ret(PyStr(<<>>))

\* a two-digit upper end of a range starting below zero was drawn as a string
C10_Witness ==
    /\ gpc = "done" /\ IntRange
    /\ GenType = s_random_int /\ GenAs = s_string
    /\ gparam.start.v < 0 /\ gparam.end.v = 10
    /\ gout.val = PyStr(<<"1", "0">>)

\* ------------------------------------------------------------------------
\* Claims about DocumentDBExecutor.execute
\* ------------------------------------------------------------------------
Invoked == last.w # 0
\* the invocation got past the connection check
Planned == Invoked /\ last.stage # "no_client"
\* the invocation reached the driver call
ReachedDriver == Invoked /\ last.handed.op # "none"

LastCommand == TaskDefs[last.task].command
LastKind == Get(LastCommand, "type", PyNone)
LastBatchSize == Get(LastCommand, "batchSize", PyInt(1)).v
LastTemplate == Get(LastCommand, primary_key(LastKind), primary_default(LastKind))

\* C2: the templates held by the command definitions are never mutated:
\* after any sequence of execute invocations every command definition,
\* primary and secondary template included, is as it was loaded.
C2_TemplatesNeverMutated ==
    \A t \in Tasks : commands[t] = TaskDefs[t].command

\* an insert batch has been substituted and handed to the driver
C2_Witness ==
    /\ last.stage = "driver_ok" /\ last.handed.op = "insert_many"
    /\ \A i \in 1..Len(last.bodies) : last.bodies[i] # LastTemplate

\* C3: a request whose (task, kind) key is already stored uses the stored
\* plan and does not index again; every stored key stands for the one
\* (task name, kind) it was built for, so a request of another kind never
\* gets it; a stored plan stays in the cache.
C3_PlanCacheKeying ==
    /\ \A b1, b2 \in built : (b1.w = b2.w /\ b1.key = b2.key) => b1 = b2
    /\ \A b \in built : DictHas(cache[b.w], b.key)
    /\ Planned =>
          /\ last.indexed <=> ~last.cachedBefore
          /\ last.plan = DictGet(cache[last.w], last.key)
          /\ [w |-> last.w, key |-> last.key, task_name |-> TaskName(last.task),
              kind |-> LastKind] \in built

\* a task is invoked again by the worker that built its plan
C3_Witness ==
    /\ Planned /\ last.hit /\ ~last.indexed
    /\ Len(cache[last.w]) > 1

C5_OneOutcomeEvent ==
    Invoked =>
        /\ ReachedDriver =>
              /\ Len(last.fired) = 1
              /\ ~last.raised
              /\ last.fired[1].name = TaskName(last.task)
              /\ last.stage = "driver_ok" =>
                    last.fired[1].request_type = "DocumentDB"
                    /\ last.fired[1].exception = "None"
              /\ last.stage = "driver_failed" =>
                    last.fired[1].request_type = "DocumentDB-Error"
                    /\ last.fired[1].exception # "None"
        /\ ~ReachedDriver => last.fired = <<>>

\* a driver call has raised
C5_Witness == ReachedDriver /\ last.stage = "driver_failed" /\ Len(last.fired) = 1

\* the values generated before parameter j in a ValueSet
Earlier(parameters, valueSet, j) ==
    [k \in 1..(j - 1) |-> Item(parameters[k].name, DictGet(valueSet, parameters[k].name))]

\* C7: within a repetition a concat parameter's {@name} placeholders hold
\* the values generated earlier in the same ValueSet, with the literal text
\* around them kept.
C7_ConcatSeesEarlierValues ==
    Planned =>
        \A i \in 1..Len(last.valueSets) :
            \A j \in 1..Len(last.plan.parameters) :
                LET param == last.plan.parameters[j]
                IN param.type = PyStr(s_concat) =>
                      DictGet(last.valueSets[i], param.name)
                          = PyStr(ConcatFrom(param.value.v, 0, 0,
                                    Earlier(last.plan.parameters, last.valueSets[i], j)))

\* C8 (as stated): after a command failed, the worker calls _connect on its
\* next execute invocation.
C8_ReconnectsAfterFailure ==
    (Invoked /\ last.prevFailed) => last.connected

\* C8 (amended): a failing command is reported as one error event and is
\* not raised to the caller; the worker keeps its client, so its next
\* invocation does not call _connect; _connect is called by an invocation
\* exactly when the worker holds no client at its start.
C8_FailureKeepsClient ==
    Invoked =>
        /\ last.stage = "driver_failed" =>
              /\ last.fired = <<fire_event("DocumentDB-Error", TaskName(last.task), "error")>>
              /\ ~last.raised
              /\ client[last.w] = "client"
        /\ last.prevFailed => ~last.connected /\ last.clientBefore = "client"
        /\ last.connected <=> last.clientBefore = "None"

\* a worker whose previous command failed has run a command again
C8_Witness == Invoked /\ last.prevFailed /\ last.stage = "driver_ok"

\* C9 (as stated): the plan cache is shared by the workers, so a worker
\* does not index a (task, kind) pair another worker has already indexed.
C9_SharedCache ==
    (Planned /\ last.indexed) =>
        ~\E b \in built : b.key = last.key /\ b.w # last.w

\* C9 (amended): every worker's executor owns its plan cache: a cache holds
\* exactly the plans its own worker built, each built once by that worker,
\* and a worker indexes a (task, kind) pair on its first invocation of it
\* whether or not another worker has indexed it.
C9_CachePerWorker ==
    /\ \A w \in Workers :
          {cache[w][i].key : i \in 1..Len(cache[w])} = {b.key : b \in {c \in built : c.w = w}}
    /\ Planned => (last.indexed <=> ~last.cachedBefore)
    /\ Planned => (last.hit <=> last.cachedBefore)

\* a worker indexes a pair that the other worker has in its cache
C9_Witness ==
    /\ Planned /\ last.indexed
    /\ \E w \in Workers : w # last.w /\ DictHas(cache[w], last.key)

LastUpdateTemplate == Get(LastCommand, secondary_key(LastKind), PyDict(<<>>))
TwoBodyKinds == {PyStr(s_update), PyStr(s_replace)}

\* C11: for an update or replace command of any batchSize >= 1 the
\* secondary body handed to the driver is the secondary template with the
\* last repetition's ValueSet substituted, and the filter body handed with
\* it is the body of that same last repetition, so both carry the same
\* generated values.
C11_LastRepetitionPair ==
    (ReachedDriver /\ LastKind \in TwoBodyKinds) =>
        LET n == Len(last.valueSets)
        IN /\ n = LastBatchSize
           /\ last.handed.upd = replace_all_params(LastUpdateTemplate,
                                    last.plan.param_paths_dict_upd,
                                    last.valueSets[n], TRUE).ret
           /\ last.handed.docs = <<last.bodies[n]>>
           /\ last.bodies[n] = replace_all_params(LastTemplate,
                                    last.plan.param_paths_dict,
                                    last.valueSets[n], TRUE).ret

\* an update whose repetitions drew different values has reached the driver
C11_Witness ==
    /\ ReachedDriver /\ LastKind = PyStr(s_update)
    /\ Len(last.valueSets) = 2
    /\ last.valueSets[1] # last.valueSets[2]
    /\ last.handed.upd # LastUpdateTemplate

DistinctNames == \A i, j \in 1..Len(names) : i # j => names[i] # names[j]
IsPrefix(p, q) == Len(p) <= Len(q) /\ SubSeq(q, 1, Len(p)) = p
PathsOf(i) == {pmap[i].val[k] : k \in 1..Len(pmap[i].val)}
AllPaths == UNION {PathsOf(i) : i \in 1..Len(pmap)}
Reordered(f) == [i \in 1..Len(pmap) |-> pmap[f[i]]]

\* C12: in the path map built for distinct parameter names no path is
\* recorded under two parameters (nor twice under one) and no path is a
\* prefix of another, and the substituted tree is the same for every order
\* in which the parameters of the map are applied.
C12_PathsDisjoint ==
    (pc \in {"indexed", "done"} /\ DistinctNames) =>
        /\ \A i, j \in 1..Len(pmap) : i # j => PathsOf(i) \cap PathsOf(j) = {}
        /\ \A i \in 1..Len(pmap) : Cardinality(PathsOf(i)) = Len(pmap[i].val)
        /\ \A p, q \in AllPaths : p # q => ~IsPrefix(p, q)
        /\ pc = "done" =>
              \A f \in Permutations(1..Len(pmap)) :
                  replace_all_params(tpl0, Reordered(f), vals, TRUE)
                      = [raised |-> FALSE, ret |-> out, obj |-> tpl0]

\* two parameters, each found in the template, have been substituted, one
\* of them at a nested path
C12_Witness ==
    /\ pc = "done" /\ DistinctNames
    /\ Len(pmap) = 2
    /\ \E p \in AllPaths : Len(p) > 1
    /\ out # tpl0

\* the Plan Cache key execute uses for the i-th loaded task
LoadedKey(i) ==
    cache_key(fullTaskName(s_wl, loaded[i].taskName), loaded[i].command.type)

\* C13: for every list of configured task names, repeated names and names
\* that already end in _<number> included, load_tasks assigns pairwise
\* distinct task names, so two tasks of the same command kind never share a
\* Plan Cache key.
C13_DistinctTaskNames ==
    lpc = "loaded" =>
        \A i, j \in 1..Len(loaded) :
            i # j =>
                /\ loaded[i].taskName # loaded[j].taskName
                /\ loaded[i].command.type = loaded[j].command.type
                      => LoadedKey(i) # LoadedKey(j)

\* C14: on a master or local runner, over any sequence of test starts and
\* task invocations, a user class configured NEVER has never run
\* run_startup, one configured ONCE has run it on the first test start and
\* on no later one, and one configured ALWAYS has run it on every test
\* start; a task invocation never runs it.
C14_StartupFrequency ==
    runner \in {"master", "local"} =>
        \A c \in UserClasses :
            /\ frequency[c] = "NEVER" => ran[c] = 0
            /\ frequency[c] = "ONCE" => ran[c] = (IF starts >= 1 THEN 1 ELSE 0)
            /\ frequency[c] = "ALWAYS" => ran[c] = starts

\* several test starts and a task invocation, with a ONCE class and an
\* ALWAYS class side by side
C14_Witness ==
    /\ runner = "local" /\ starts >= 2 /\ tasksRun >= 1
    /\ \E c \in UserClasses : frequency[c] = "ONCE" /\ ran[c] = 1
    /\ \E c \in UserClasses : frequency[c] = "ALWAYS" /\ ran[c] = starts

====
